---- MODULE Spec2Model ----
(***************************************************************************)
(* Model of libobs/obs-output.c: one output instance, the encoders and     *)
(* raw pipelines it hooks, the data-capture state machine and the packet   *)
(* interleaver.                                                            *)
(***************************************************************************)
EXTENDS Integers, Sequences, FiniteSets, TLC

(* ------------------------------ bounds --------------------------------- *)
MaxDts == 1
MaxPackets == 5
MaxSignals == 3
MaxCtlSignals == 2
MaxUninit == 1
MaxSinglePackets == 2
MaxHooks == 4
MaxMutexPackets == 2

(* --------------------------- program constants ------------------------- *)
MICROSECOND_DEN == 1000000

NULL == "NULL"
OBS_ENCODER_VIDEO == "OBS_ENCODER_VIDEO"
OBS_ENCODER_AUDIO == "OBS_ENCODER_AUDIO"
EncoderTypes == {OBS_ENCODER_VIDEO, OBS_ENCODER_AUDIO}

OBS_OUTPUT_VIDEO == "OBS_OUTPUT_VIDEO"
OBS_OUTPUT_AUDIO == "OBS_OUTPUT_AUDIO"
OBS_OUTPUT_ENCODED == "OBS_OUTPUT_ENCODED"
OutputFlags == {OBS_OUTPUT_VIDEO, OBS_OUTPUT_AUDIO, OBS_OUTPUT_ENCODED}

(* the codes a start notification can carry *)
OBS_OUTPUT_SUCCESS == "OBS_OUTPUT_SUCCESS"
OBS_OUTPUT_CONNECT_FAILED == "OBS_OUTPUT_CONNECT_FAILED"
StartCodes == {OBS_OUTPUT_SUCCESS, OBS_OUTPUT_CONNECT_FAILED}

(* the encoders of the process and their declared media type *)
Encoders == {"venc", "venc2", "aenc"}
encoder_type(e) == IF e = "aenc" THEN OBS_ENCODER_AUDIO ELSE OBS_ENCODER_VIDEO

(* the raw media pipelines of the process *)
VideoPipes == {"video"}
AudioPipes == {"audio"}

(* the two callback/context pairs hook_data_capture can register *)
InterleaveCb == [cb |-> "interleave_packets", param |-> "output"]
NativeCb == [cb |-> "encoded_packet", param |-> "data"]
RawVideoCb == [cb |-> "raw_video", param |-> "data"]
RawAudioCb == [cb |-> "raw_audio", param |-> "data"]

VARIABLES
    info_flags,           \* output->info.flags
    active,               \* output->active
    video, audio,         \* output->video, output->audio
    video_encoder,        \* output->video_encoder
    audio_encoder,        \* output->audio_encoder
    received_video,       \* output->received_video
    received_audio,       \* output->received_audio
    first_video_ts,       \* output->first_video_ts
    video_offset,         \* output->video_offset
    audio_offset,         \* output->audio_offset
    interleaved_packets,  \* output->interleaved_packets
    enc_outputs,          \* encoder->outputs, per encoder
    enc_callbacks,        \* encoder->callbacks, per encoder
    pipe_callbacks,       \* connections of each raw pipeline
    enc_dts,              \* last dts each encoder produced
    delivered,            \* number of packets the encoders produced
    sink,                 \* packets handed to info.encoded_packet
    released,             \* the entries send_interleaved took out
    signals,              \* notifications emitted on output->signals
    session,              \* what the current capture session has seen
    lastCall,             \* the last operation and what it returned
    handle,               \* the obs_output_t the caller holds, or NULL
    valid,                \* output->valid
    data,                 \* output->data, the sink's private state
    outputs,              \* obs->data.outputs, the process-wide registry
    hooks,                \* the type hooks invoked so far
    interleaved_mutex,    \* the thread holding output->interleaved_mutex
    pc,                   \* where each encoder thread is in its callback
    fault                 \* the outcome of an undefined access, or NULL

vars == <<info_flags, active, video, audio, video_encoder, audio_encoder,
          received_video, received_audio, first_video_ts, video_offset,
          audio_offset, interleaved_packets, enc_outputs, enc_callbacks,
          pipe_callbacks, enc_dts, delivered, sink, released, signals,
          session, lastCall, handle, valid, data, outputs, hooks,
          interleaved_mutex, pc, fault>>

syncVars == <<received_video, received_audio, first_video_ts, video_offset,
              audio_offset>>
bindVars == <<video_encoder, audio_encoder, enc_outputs>>
hookVars == <<enc_callbacks, pipe_callbacks>>
packetVars == <<interleaved_packets, enc_dts, delivered, sink, released>>
lifeVars == <<handle, valid, data, outputs, hooks>>
threadVars == <<interleaved_mutex, pc>>

Call(op, ret, ptype) == [op |-> op, ret |-> ret, ptype |-> ptype]

(* what a capture session has seen: a video packet, an accepted audio      *)
(* packet, and how many entries had been released when it began            *)
Session(base) == [video |-> FALSE, audio |-> FALSE, base |-> base]

(* ------------------------------ Init ----------------------------------- *)
(* the state obs_output_create leaves: bzalloc zeroes every field, info is  *)
(* copied from the type, video/audio are the process pipelines             *)
Init ==
    /\ info_flags \in SUBSET OutputFlags
    /\ active = FALSE
    /\ video = "video"
    /\ audio = "audio"
    /\ video_encoder = NULL
    /\ audio_encoder = NULL
    /\ received_video = FALSE
    /\ received_audio = FALSE
    /\ first_video_ts = 0
    /\ video_offset = 0
    /\ audio_offset = 0
    /\ interleaved_packets = <<>>
    /\ enc_outputs = [e \in Encoders |-> {}]
    /\ enc_callbacks = [e \in Encoders |-> {}]
    /\ pipe_callbacks = [p \in VideoPipes \cup AudioPipes |-> {}]
    /\ enc_dts = [e \in Encoders |-> 0]
    /\ delivered = 0
    /\ sink = <<>>
    /\ released = <<>>
    /\ signals = <<>>
    /\ session = Session(0)
    /\ lastCall = Call("obs_output_create", TRUE, NULL)
    /\ handle = "output"
    /\ valid = TRUE
    /\ data = "data"
    /\ outputs = <<"output">>
    /\ hooks = <<"create">>
    /\ interleaved_mutex = NULL
    /\ pc = [e \in Encoders |-> "idle"]
    /\ fault = NULL

(* --------------------------- collaborators ----------------------------- *)
(* obs_encoder_add_output / obs_encoder_remove_output; a null encoder is   *)
(* ignored                                                                 *)
obs_encoder_remove_output(outs, encoder) ==
    IF encoder = NULL THEN outs
    ELSE [outs EXCEPT ![encoder] = @ \ {"output"}]

obs_encoder_add_output(outs, encoder) ==
    IF encoder = NULL THEN outs
    ELSE [outs EXCEPT ![encoder] = @ \cup {"output"}]

(* obs_encoder_start / obs_encoder_stop: register or remove one            *)
(* callback/context pair; stopping a pair that was never started, or a     *)
(* null encoder, does nothing                                              *)
obs_encoder_start(cbs, encoder, pair) ==
    IF encoder = NULL THEN cbs
    ELSE [cbs EXCEPT ![encoder] = @ \cup {pair}]

obs_encoder_stop(cbs, encoder, pair) ==
    IF encoder = NULL THEN cbs
    ELSE [cbs EXCEPT ![encoder] = @ \ {pair}]

(* video_output_connect / audio_output_connect and their disconnects *)
output_connect(conns, pipe, pair) ==
    IF pipe = NULL THEN conns
    ELSE [conns EXCEPT ![pipe] = @ \cup {pair}]

output_disconnect(conns, pipe, pair) ==
    IF pipe = NULL THEN conns
    ELSE [conns EXCEPT ![pipe] = @ \ {pair}]

(* ------------------------- binding operations -------------------------- *)
obs_output_set_media(v, a) ==
    /\ video' = v
    /\ audio' = a
    /\ lastCall' = Call("obs_output_set_media", TRUE, NULL)
    /\ UNCHANGED <<lifeVars, threadVars, fault,
                   info_flags, active, bindVars, syncVars, hookVars,
                   packetVars, signals, session>>

(* the type of the encoder a setter is given, recorded with the call *)
arg_type(encoder) == IF encoder = NULL THEN NULL ELSE encoder_type(encoder)

(* obs_output_remove_encoder: nulls whichever slot holds the encoder *)
obs_output_remove_encoder(encoder) ==
    /\ lastCall' = Call("obs_output_remove_encoder", TRUE, arg_type(encoder))
    /\ IF video_encoder = encoder
       THEN /\ video_encoder' = NULL
            /\ UNCHANGED audio_encoder
       ELSE IF audio_encoder = encoder
       THEN /\ audio_encoder' = NULL
            /\ UNCHANGED video_encoder
       ELSE UNCHANGED <<video_encoder, audio_encoder>>
    /\ UNCHANGED <<lifeVars, threadVars, fault,
                   info_flags, active, video, audio, enc_outputs, syncVars,
                   hookVars, packetVars, signals, session>>

(* the setter storing the reference without the encoder-side add *)
obs_output_set_video_encoder_unlinked(encoder) ==
    /\ lastCall' = Call("obs_output_set_video_encoder", TRUE,
                        arg_type(encoder))
    /\ IF video_encoder = encoder
          \/ (encoder # NULL /\ encoder_type(encoder) # OBS_ENCODER_VIDEO)
       THEN UNCHANGED bindVars
       ELSE /\ enc_outputs' = obs_encoder_remove_output(enc_outputs, encoder)
            /\ video_encoder' = encoder
            /\ UNCHANGED audio_encoder
    /\ UNCHANGED <<lifeVars, threadVars, fault,
                   info_flags, active, video, audio, syncVars, hookVars,
                   packetVars, signals, session>>

obs_output_set_video_encoder(encoder) ==
    /\ lastCall' = Call("obs_output_set_video_encoder", TRUE,
                        arg_type(encoder))
    /\ IF video_encoder = encoder
          \/ (encoder # NULL /\ encoder_type(encoder) # OBS_ENCODER_VIDEO)
       THEN UNCHANGED bindVars
       ELSE /\ enc_outputs' = obs_encoder_add_output(
                   obs_encoder_remove_output(enc_outputs, encoder), encoder)
            /\ video_encoder' = encoder
            /\ UNCHANGED audio_encoder
    /\ UNCHANGED <<lifeVars, threadVars, fault,
                   info_flags, active, video, audio, syncVars, hookVars,
                   packetVars, signals, session>>

(* the setter without the test of the encoder's type *)
obs_output_set_audio_encoder_untyped(encoder) ==
    /\ lastCall' = Call("obs_output_set_audio_encoder", TRUE,
                        arg_type(encoder))
    /\ IF audio_encoder = encoder
       THEN UNCHANGED bindVars
       ELSE /\ enc_outputs' = obs_encoder_add_output(
                   obs_encoder_remove_output(enc_outputs, encoder), encoder)
            /\ audio_encoder' = encoder
            /\ UNCHANGED video_encoder
    /\ UNCHANGED <<lifeVars, threadVars, fault,
                   info_flags, active, video, audio, syncVars, hookVars,
                   packetVars, signals, session>>

obs_output_set_audio_encoder(encoder) ==
    /\ lastCall' = Call("obs_output_set_audio_encoder", TRUE,
                        arg_type(encoder))
    /\ IF audio_encoder = encoder
          \/ (encoder # NULL /\ encoder_type(encoder) # OBS_ENCODER_AUDIO)
       THEN UNCHANGED bindVars
       ELSE /\ enc_outputs' = obs_encoder_add_output(
                   obs_encoder_remove_output(enc_outputs, encoder), encoder)
            /\ audio_encoder' = encoder
            /\ UNCHANGED video_encoder
    /\ UNCHANGED <<lifeVars, threadVars, fault,
                   info_flags, active, video, audio, syncVars, hookVars,
                   packetVars, signals, session>>

(* --------------------------- readiness check --------------------------- *)
(* convert_flags: flags = 0 means the type's own flags, otherwise the      *)
(* request is masked with them                                             *)
convert_flags(flags) ==
    LET eff == IF flags = {} THEN info_flags ELSE flags \cap info_flags
    IN  [encoded   |-> (info_flags \cap {OBS_OUTPUT_ENCODED}) # {},
         has_video |-> (eff \cap {OBS_OUTPUT_VIDEO}) # {},
         has_audio |-> (eff \cap {OBS_OUTPUT_AUDIO}) # {}]

(* can_begin_data_capture with the audio half testing the video producers *)
can_begin_data_capture_novideo(encoded, has_video, has_audio) ==
    IF has_video /\ encoded /\ video_encoder = NULL THEN FALSE
    ELSE IF has_video /\ ~encoded /\ video = NULL THEN FALSE
    ELSE IF has_audio /\ encoded /\ video_encoder = NULL THEN FALSE
    ELSE IF has_audio /\ ~encoded /\ video = NULL THEN FALSE
    ELSE TRUE

can_begin_data_capture(encoded, has_video, has_audio) ==
    IF has_video /\ encoded /\ video_encoder = NULL THEN FALSE
    ELSE IF has_video /\ ~encoded /\ video = NULL THEN FALSE
    ELSE IF has_audio /\ encoded /\ audio_encoder = NULL THEN FALSE
    ELSE IF has_audio /\ ~encoded /\ audio = NULL THEN FALSE
    ELSE TRUE

obs_output_can_begin_data_capture_ret(flags) ==
    IF active THEN FALSE
    ELSE LET f == convert_flags(flags)
         IN  can_begin_data_capture(f.encoded, f.has_video, f.has_audio)

obs_output_can_begin_data_capture(flags) ==
    /\ lastCall' = Call("obs_output_can_begin_data_capture",
                        obs_output_can_begin_data_capture_ret(flags), NULL)
    /\ UNCHANGED <<lifeVars, threadVars, fault,
                   info_flags, active, video, audio, bindVars, syncVars,
                   hookVars, packetVars, signals, session>>

(* ----------------------- data-capture state machine -------------------- *)
(* signal_start that never reaches the signal handler *)
signal_start_dropped(sigs, code, by) == sigs

(* signal_start / signal_stop; `by` remembers the operation that emitted   *)
(* the notification                                                        *)
signal_start(sigs, code, by) ==
    Append(sigs, [name |-> "start", code |-> code, by |-> by])

signal_stop(sigs, by) ==
    Append(sigs, [name |-> "stop", code |-> NULL, by |-> by])

(* hook_data_capture: the encoded branch clears received_video twice and   *)
(* leaves received_audio alone                                             *)
hook_data_capture(encoded, has_video, has_audio) ==
    IF encoded
    THEN LET pair == IF has_video /\ has_audio THEN InterleaveCb
                     ELSE NativeCb
             c1 == IF has_video
                   THEN obs_encoder_start(enc_callbacks, video_encoder, pair)
                   ELSE enc_callbacks
             c2 == IF has_audio
                   THEN obs_encoder_start(c1, audio_encoder, pair)
                   ELSE c1
         IN  /\ received_video' = FALSE
             /\ enc_callbacks' = c2
             /\ UNCHANGED <<received_audio, pipe_callbacks>>
    ELSE LET p1 == IF has_video
                   THEN output_connect(pipe_callbacks, video, RawVideoCb)
                   ELSE pipe_callbacks
             p2 == IF has_audio
                   THEN output_connect(p1, audio, RawAudioCb)
                   ELSE p1
         IN  /\ pipe_callbacks' = p2
             /\ UNCHANGED <<received_video, received_audio, enc_callbacks>>

(* obs_output_begin_data_capture hooking the producers before it checks    *)
(* whether capture can begin                                               *)
obs_output_begin_data_capture_hook_first(flags) ==
    LET f == convert_flags(flags)
    IN  IF active
           \/ ~can_begin_data_capture(f.encoded, f.has_video, f.has_audio)
        THEN /\ hook_data_capture(f.encoded, f.has_video, f.has_audio)
             /\ lastCall' = Call("obs_output_begin_data_capture", FALSE,
                                 NULL)
             /\ UNCHANGED <<lifeVars, threadVars, fault,
                            info_flags, active, video, audio, bindVars,
                            first_video_ts, video_offset, audio_offset,
                            packetVars, signals, session>>
        ELSE /\ hook_data_capture(f.encoded, f.has_video, f.has_audio)
             /\ active' = TRUE
             /\ signals' = signal_start(signals, OBS_OUTPUT_SUCCESS,
                                         "obs_output_begin_data_capture")
             /\ session' = Session(Len(released))
             /\ lastCall' = Call("obs_output_begin_data_capture", TRUE,
                                 NULL)
             /\ UNCHANGED <<lifeVars, threadVars, fault,
                            info_flags, video, audio, bindVars,
                            first_video_ts, video_offset, audio_offset,
                            packetVars>>

obs_output_begin_data_capture(flags) ==
    LET f == convert_flags(flags)
    IN  IF active
           \/ ~can_begin_data_capture(f.encoded, f.has_video, f.has_audio)
        THEN /\ lastCall' = Call("obs_output_begin_data_capture", FALSE,
                                 NULL)
             /\ UNCHANGED <<lifeVars, threadVars, fault,
                            info_flags, active, video, audio, bindVars,
                            syncVars, hookVars, packetVars, signals,
                            session>>
        ELSE /\ hook_data_capture(f.encoded, f.has_video, f.has_audio)
             /\ active' = TRUE
             /\ signals' = signal_start(signals, OBS_OUTPUT_SUCCESS,
                                         "obs_output_begin_data_capture")
             /\ session' = Session(Len(released))
             /\ lastCall' = Call("obs_output_begin_data_capture", TRUE,
                                 NULL)
             /\ UNCHANGED <<lifeVars, threadVars, fault,
                            info_flags, video, audio, bindVars,
                            first_video_ts, video_offset, audio_offset,
                            packetVars>>

(* obs_output_end_data_capture: the flags are recomputed with flags = 0 *)
obs_output_end_data_capture ==
    IF ~active
    THEN /\ lastCall' = Call("obs_output_end_data_capture", FALSE, NULL)
         /\ UNCHANGED <<lifeVars, threadVars, fault,
                        info_flags, active, video, audio, bindVars, syncVars,
                        hookVars, packetVars, signals, session>>
    ELSE LET f == convert_flags({})
             pair == IF f.has_video /\ f.has_audio THEN InterleaveCb
                     ELSE NativeCb
             c1 == IF f.has_video
                   THEN obs_encoder_stop(enc_callbacks, video_encoder, pair)
                   ELSE enc_callbacks
             c2 == IF f.has_audio
                   THEN obs_encoder_stop(c1, audio_encoder, pair)
                   ELSE c1
             p1 == IF f.has_video
                   THEN output_disconnect(pipe_callbacks, video, RawVideoCb)
                   ELSE pipe_callbacks
             p2 == IF f.has_audio
                   THEN output_disconnect(p1, audio, RawAudioCb)
                   ELSE p1
         IN  /\ IF f.encoded
                THEN enc_callbacks' = c2 /\ UNCHANGED pipe_callbacks
                ELSE pipe_callbacks' = p2 /\ UNCHANGED enc_callbacks
             /\ active' = FALSE
             /\ signals' = signal_stop(signals, "obs_output_end_data_capture")
             /\ lastCall' = Call("obs_output_end_data_capture", TRUE, NULL)
             /\ UNCHANGED <<lifeVars, threadVars, fault,
                            info_flags, video, audio, bindVars, syncVars,
                            packetVars, session>>

obs_output_signal_start_fail(code) ==
    /\ signals' = signal_start(signals, code,
                                "obs_output_signal_start_fail")
    /\ lastCall' = Call("obs_output_signal_start_fail", TRUE, NULL)
    /\ UNCHANGED <<lifeVars, threadVars, fault,
                   info_flags, active, video, audio, bindVars, syncVars,
                   hookVars, packetVars, session>>

(* --------------------------- packet interleaver ------------------------ *)
Abs(x) == IF x < 0 THEN 0 - x ELSE x

(* C integer division truncates toward zero *)
CDiv(a, b) ==
    LET q == Abs(a) \div Abs(b)
    IN  IF (a < 0) # (b < 0) THEN 0 - q ELSE q

timebase_den(type) == IF type = OBS_ENCODER_VIDEO THEN 2 ELSE 4

EncoderPacket(type, dts) ==
    [type |-> type, dts |-> dts, pts |-> dts,
     timebase_den |-> timebase_den(type)]

convert_packet_dts(packet) ==
    CDiv(packet.dts * MICROSECOND_DEN, packet.timebase_den)

(* the values `struct il_packet out` of interleave_packets can hold before *)
(* anything is stored in it: whatever an earlier frame left on the stack   *)
Uninit == 0 .. MaxUninit
StalePacket(g) ==
    [type |-> IF g % 2 = 0 THEN OBS_ENCODER_VIDEO ELSE OBS_ENCODER_AUDIO,
     dts |-> g, pts |-> g, timebase_den |-> 1]
UninitIlPacket ==
    {[input_ts_us |-> 0, output_ts_us |-> g, packet |-> StalePacket(g)] :
        g \in Uninit}

(* prepare_interleaved_packet: the return value, *out and the fields of    *)
(* the output it leaves                                                    *)
prepare_interleaved_packet(out, packet) ==
    LET ts == convert_packet_dts(packet)
        out1 == [out EXCEPT !.input_ts_us = ts]
        first_video == packet.type = OBS_ENCODER_VIDEO /\ ~received_video
        first_audio == packet.type # OBS_ENCODER_VIDEO /\ ~received_audio
        reject == /\ packet.type # OBS_ENCODER_VIDEO
                  /\ (~received_video \/ ts < first_video_ts)
        v_off == IF first_video THEN packet.dts ELSE video_offset
        a_off == IF first_audio /\ ~reject THEN packet.dts ELSE audio_offset
        offset == IF packet.type = OBS_ENCODER_VIDEO THEN v_off ELSE a_off
        dup == [packet EXCEPT !.dts = @ - offset, !.pts = @ - offset]
    IN  [ret |-> ~reject,
         out |-> IF reject THEN out1
                 ELSE [input_ts_us |-> ts,
                       output_ts_us |-> convert_packet_dts(dup),
                       packet |-> dup],
         received_video |-> received_video \/ first_video,
         received_audio |-> received_audio \/ (first_audio /\ ~reject),
         first_video_ts |-> IF first_video THEN ts ELSE first_video_ts,
         video_offset |-> v_off,
         audio_offset |-> a_off]

(* the scan of interleave_packets: the first index whose entry has a       *)
(* strictly greater output_ts_us, or the length when there is none         *)
RECURSIVE insert_idx(_, _, _)
insert_idx(packets, out, idx) ==
    IF idx >= Len(packets) THEN idx
    ELSE IF out.output_ts_us < packets[idx + 1].output_ts_us THEN idx
    ELSE insert_idx(packets, out, idx + 1)

da_insert(packets, idx, out) ==
    SubSeq(packets, 1, idx) \o <<out>> \o SubSeq(packets, idx + 1, Len(packets))

(* send_interleaved: what is left in the array, and what the sink gets *)
send_interleaved(packets, snk) ==
    [packets |-> Tail(packets), out |-> Head(packets),
     sink |-> Append(snk, Head(packets).packet)]

(* interleave_packets(data = output, packet); `out` is the local as it is  *)
(* on entry.  The body of the if runs when prepare_interleaved_packet      *)
(* returns false.                                                          *)
interleave_packets(out, packet) ==
    LET r == prepare_interleaved_packet(out, packet)
        inserted == da_insert(interleaved_packets,
                              insert_idx(interleaved_packets, r.out, 0),
                              r.out)
        sent == send_interleaved(inserted, sink)
    IN  /\ received_video' = r.received_video
        /\ received_audio' = r.received_audio
        /\ first_video_ts' = r.first_video_ts
        /\ video_offset' = r.video_offset
        /\ audio_offset' = r.audio_offset
        /\ IF ~r.ret
           THEN IF r.received_audio /\ r.received_video
                THEN /\ interleaved_packets' = sent.packets
                     /\ sink' = sent.sink
                     /\ released' = Append(released, sent.out)
                ELSE /\ interleaved_packets' = inserted
                     /\ UNCHANGED <<sink, released>>
           ELSE UNCHANGED <<interleaved_packets, sink, released>>
        /\ session' = [session EXCEPT
              !.video = @ \/ packet.type = OBS_ENCODER_VIDEO,
              !.audio = @ \/ (packet.type # OBS_ENCODER_VIDEO /\ r.ret)]
        /\ lastCall' = Call("interleave_packets", r.ret, packet.type)

(* an encoder produces its next packet (dts never goes back) and calls a   *)
(* callback/context pair registered with it                                *)
EncoderCallback(e, pair, dts, out) ==
    /\ pair \in enc_callbacks[e]
    /\ delivered < MaxPackets
    /\ dts >= enc_dts[e]
    /\ enc_dts' = [enc_dts EXCEPT ![e] = dts]
    /\ delivered' = delivered + 1
    /\ IF pair = InterleaveCb
       THEN interleave_packets(out, EncoderPacket(encoder_type(e), dts))
       ELSE /\ sink' = Append(sink, EncoderPacket(encoder_type(e), dts))
            /\ lastCall' = Call("encoded_packet", TRUE, encoder_type(e))
            /\ UNCHANGED <<syncVars, interleaved_packets, released,
                           session>>
    /\ UNCHANGED <<lifeVars, threadVars, fault,
                   info_flags, active, video, audio, bindVars, hookVars,
                   signals>>

(* ------------------------------ the system ----------------------------- *)
SetMedia == \E v \in VideoPipes \cup {NULL}, a \in AudioPipes \cup {NULL} :
                obs_output_set_media(v, a)

SetVideoEncoder == \E e \in Encoders \cup {NULL} :
                       obs_output_set_video_encoder(e)

SetAudioEncoder == \E e \in Encoders \cup {NULL} :
                       obs_output_set_audio_encoder(e)

CanBeginDataCapture == \E flags \in SUBSET OutputFlags :
                           obs_output_can_begin_data_capture(flags)

BeginDataCapture == \E flags \in SUBSET OutputFlags :
                        /\ Len(signals) < MaxCtlSignals
                        /\ obs_output_begin_data_capture(flags)

EndDataCapture == /\ Len(signals) < MaxCtlSignals
                  /\ obs_output_end_data_capture

SignalStartFailure == \E code \in StartCodes :
                          /\ Len(signals) < MaxCtlSignals
                          /\ obs_output_signal_start_fail(code)

EndCapture == /\ Len(signals) < MaxSignals
              /\ obs_output_end_data_capture

Deliver == \E e \in Encoders, pair \in {InterleaveCb, NativeCb},
              dts \in 0 .. MaxDts, out \in UninitIlPacket :
               EncoderCallback(e, pair, dts, out)

(* the control plane: every output type, bindings, readiness, begin/end *)
Next ==
    \/ SetMedia
    \/ SetVideoEncoder
    \/ SetAudioEncoder
    \/ CanBeginDataCapture
    \/ BeginDataCapture
    \/ EndDataCapture
    \/ SignalStartFailure

Spec == Init /\ [][Next]_vars

(* the packet plane: an encoded video+audio output with both encoders      *)
(* bound, capture sessions and the packets the encoders deliver            *)
InitPackets ==
    /\ info_flags = OutputFlags
    /\ active = FALSE
    /\ video = "video"
    /\ audio = "audio"
    /\ video_encoder = "venc"
    /\ audio_encoder \in {NULL, "aenc"}
    /\ received_video = FALSE
    /\ received_audio = FALSE
    /\ first_video_ts = 0
    /\ video_offset = 0
    /\ audio_offset = 0
    /\ interleaved_packets = <<>>
    /\ enc_outputs = [e \in Encoders |->
                        IF e \in {video_encoder, audio_encoder}
                        THEN {"output"} ELSE {}]
    /\ enc_callbacks = [e \in Encoders |-> {}]
    /\ pipe_callbacks = [p \in VideoPipes \cup AudioPipes |-> {}]
    /\ enc_dts = [e \in Encoders |-> 0]
    /\ delivered = 0
    /\ sink = <<>>
    /\ released = <<>>
    /\ signals = <<>>
    /\ session = Session(0)
    /\ lastCall = Call("obs_output_set_audio_encoder", TRUE,
                       arg_type(audio_encoder))
    /\ handle = "output"
    /\ valid = TRUE
    /\ data = "data"
    /\ outputs = <<"output">>
    /\ hooks = <<"create">>
    /\ interleaved_mutex = NULL
    /\ pc = [e \in Encoders |-> "idle"]
    /\ fault = NULL

BeginCapture == /\ Len(signals) < MaxSignals
                /\ obs_output_begin_data_capture({})

NextPackets ==
    \/ BeginCapture
    \/ EndCapture
    \/ Deliver

SpecPackets == InitPackets /\ [][NextPackets]_vars

(* capture sessions of one medium and of both on the same output *)
BeginSingle == \E flags \in {{}, {OBS_OUTPUT_VIDEO}, {OBS_OUTPUT_AUDIO}} :
                   /\ Len(signals) < MaxSignals
                   /\ obs_output_begin_data_capture(flags)

DeliverSingle == /\ delivered < MaxSinglePackets
                 /\ Deliver

NextSingle ==
    \/ BeginSingle
    \/ EndCapture
    \/ DeliverSingle

SpecSingle == InitPackets /\ [][NextSingle]_vars

(* --------------------------- encoder threads --------------------------- *)
(* an encoder thread enters interleave_packets with its next packet *)
interleave_enter(e) ==
    /\ pc[e] = "idle"
    /\ InterleaveCb \in enc_callbacks[e]
    /\ pc' = [pc EXCEPT ![e] = "lock"]
    /\ UNCHANGED <<lifeVars, interleaved_mutex, fault,
                   info_flags, active, video, audio, bindVars, syncVars,
                   hookVars, packetVars, signals, session, lastCall>>

(* pthread_mutex_lock(&output->interleaved_mutex) *)
interleave_lock(e) ==
    /\ pc[e] = "lock"
    /\ interleaved_mutex = NULL
    /\ interleaved_mutex' = e
    /\ pc' = [pc EXCEPT ![e] = "body"]
    /\ UNCHANGED <<lifeVars, fault,
                   info_flags, active, video, audio, bindVars, syncVars,
                   hookVars, packetVars, signals, session, lastCall>>

(* the body of interleave_packets between the lock and the unlock *)
interleave_body(e, dts, out) ==
    /\ pc[e] = "body"
    /\ dts >= enc_dts[e]
    /\ enc_dts' = [enc_dts EXCEPT ![e] = dts]
    /\ delivered' = delivered + 1
    /\ interleave_packets(out, EncoderPacket(encoder_type(e), dts))
    /\ pc' = [pc EXCEPT ![e] = "unlock"]
    /\ UNCHANGED <<lifeVars, interleaved_mutex, fault,
                   info_flags, active, video, audio, bindVars, hookVars,
                   signals>>

(* pthread_mutex_unlock(&output->interleaved_mutex) *)
interleave_unlock(e) ==
    /\ pc[e] = "unlock"
    /\ interleaved_mutex' = NULL
    /\ pc' = [pc EXCEPT ![e] = "idle"]
    /\ UNCHANGED <<lifeVars, fault,
                   info_flags, active, video, audio, bindVars, syncVars,
                   hookVars, packetVars, signals, session, lastCall>>

Enter == \E e \in Encoders : /\ delivered + Cardinality({t \in Encoders :
                                     pc[t] \in {"lock", "body"}})
                                 < MaxMutexPackets
                              /\ interleave_enter(e)

Lock == \E e \in Encoders : interleave_lock(e)

Body == \E e \in Encoders, dts \in 0 .. MaxDts, out \in UninitIlPacket :
            interleave_body(e, dts, out)

Unlock == \E e \in Encoders : interleave_unlock(e)

(* obs_encoder_stop returns once the encoder is in no callback *)
EndQuiescent == /\ \A e \in Encoders : pc[e] = "idle"
                /\ EndCapture

NextMutex ==
    \/ BeginCapture
    \/ EndQuiescent
    \/ Enter
    \/ Lock
    \/ Body
    \/ Unlock

SpecMutex == InitPackets /\ [][NextMutex]_vars

(* ----------------------------- the lifecycle --------------------------- *)
(* obs->output_types: the registered types and their flags *)
output_types ==
    [id \in {"raw_video", "raw_audio", "raw_av", "encoded_av"} |->
        CASE id = "raw_video" -> {OBS_OUTPUT_VIDEO}
          [] id = "raw_audio" -> {OBS_OUTPUT_AUDIO}
          [] id = "raw_av" -> {OBS_OUTPUT_VIDEO, OBS_OUTPUT_AUDIO}
          [] OTHER -> OutputFlags]

(* find_output: whether a type is registered under the id *)
find_output(id) == id \in DOMAIN output_types

(* bzalloc: every field of the instance is zero; the same values stand for *)
(* the fields of an instance that does not exist                           *)
bzalloc ==
    /\ active' = FALSE
    /\ video_encoder' = NULL
    /\ audio_encoder' = NULL
    /\ received_video' = FALSE
    /\ received_audio' = FALSE
    /\ first_video_ts' = 0
    /\ video_offset' = 0
    /\ audio_offset' = 0
    /\ interleaved_packets' = <<>>

(* da_erase_item: removes the first element equal to item *)
RECURSIVE da_erase_item(_, _)
da_erase_item(arr, item) ==
    IF arr = <<>> THEN <<>>
    ELSE IF Head(arr) = item THEN Tail(arr)
    ELSE <<Head(arr)>> \o da_erase_item(Tail(arr), item)

(* the hooks obs_output_destroy invokes and the registry it leaves *)
destroy_hooks(hks) ==
    LET h1 == IF valid /\ active THEN Append(hks, "stop") ELSE hks
    IN  IF data # NULL THEN Append(h1, "destroy") ELSE h1

obs_output_destroy ==
    /\ hooks' = destroy_hooks(hooks)
    /\ outputs' = IF valid THEN da_erase_item(outputs, handle) ELSE outputs
    /\ bzalloc
    /\ info_flags' = {}
    /\ video' = NULL
    /\ audio' = NULL
    /\ valid' = FALSE
    /\ data' = NULL
    /\ handle' = NULL
    /\ lastCall' = Call("obs_output_destroy", valid, NULL)
    /\ UNCHANGED <<threadVars, fault, enc_outputs, hookVars, enc_dts,
                   delivered, sink, released, signals, session>>

(* obs_output_create registering the instance before the type's create     *)
(* hook has returned its private state                                     *)
obs_output_create_register_first(id, mutex_ok, handlers_ok, created) ==
    /\ bzalloc
    /\ UNCHANGED <<threadVars, fault, enc_outputs, hookVars, enc_dts,
                   delivered, sink, released, signals, session>>
    /\ IF ~find_output(id) \/ ~mutex_ok \/ ~handlers_ok
       THEN /\ lastCall' = Call("obs_output_create", FALSE, NULL)
            /\ info_flags' = {} /\ video' = NULL /\ audio' = NULL
            /\ valid' = FALSE /\ data' = NULL /\ handle' = NULL
            /\ UNCHANGED <<outputs, hooks>>
       ELSE /\ hooks' = Append(hooks, "create")
            /\ outputs' = Append(outputs, "output")
            /\ IF created = NULL
               THEN /\ lastCall' = Call("obs_output_create", FALSE, NULL)
                    /\ info_flags' = {} /\ video' = NULL /\ audio' = NULL
                    /\ valid' = FALSE /\ data' = NULL /\ handle' = NULL
               ELSE /\ lastCall' = Call("obs_output_create", TRUE, NULL)
                    /\ info_flags' = output_types[id]
                    /\ video' = "video" /\ audio' = "audio"
                    /\ valid' = TRUE /\ data' = created
                    /\ handle' = "output"

(* obs_output_create: id is looked up with find_output; the failure path   *)
(* is obs_output_destroy on an instance that is not valid and has no data, *)
(* which invokes no hook and leaves the registry alone                     *)
obs_output_create(id, mutex_ok, handlers_ok, created) ==
    /\ bzalloc
    /\ UNCHANGED <<threadVars, fault, enc_outputs, hookVars, enc_dts,
                   delivered, sink, released, signals, session>>
    /\ IF ~find_output(id) \/ ~mutex_ok \/ ~handlers_ok
       THEN /\ lastCall' = Call("obs_output_create", FALSE, NULL)
            /\ info_flags' = {} /\ video' = NULL /\ audio' = NULL
            /\ valid' = FALSE /\ data' = NULL /\ handle' = NULL
            /\ UNCHANGED <<outputs, hooks>>
       ELSE /\ hooks' = Append(hooks, "create")
            /\ IF created = NULL
               THEN /\ lastCall' = Call("obs_output_create", FALSE, NULL)
                    /\ info_flags' = {} /\ video' = NULL /\ audio' = NULL
                    /\ valid' = FALSE /\ data' = NULL /\ handle' = NULL
                    /\ UNCHANGED outputs
               ELSE /\ lastCall' = Call("obs_output_create", TRUE, NULL)
                    /\ info_flags' = output_types[id]
                    /\ video' = "video" /\ audio' = "audio"
                    /\ valid' = TRUE /\ data' = created
                    /\ outputs' = Append(outputs, "output")
                    /\ handle' = "output"

(* no instance yet; the registry may hold another output *)
InitLife ==
    /\ info_flags = {}
    /\ active = FALSE
    /\ video = NULL
    /\ audio = NULL
    /\ video_encoder = NULL
    /\ audio_encoder = NULL
    /\ received_video = FALSE
    /\ received_audio = FALSE
    /\ first_video_ts = 0
    /\ video_offset = 0
    /\ audio_offset = 0
    /\ interleaved_packets = <<>>
    /\ enc_outputs = [e \in Encoders |-> {}]
    /\ enc_callbacks = [e \in Encoders |-> {}]
    /\ pipe_callbacks = [p \in VideoPipes \cup AudioPipes |-> {}]
    /\ enc_dts = [e \in Encoders |-> 0]
    /\ delivered = 0
    /\ sink = <<>>
    /\ released = <<>>
    /\ signals = <<>>
    /\ session = Session(0)
    /\ lastCall = Call(NULL, TRUE, NULL)
    /\ handle = NULL
    /\ valid = FALSE
    /\ data = NULL
    /\ outputs \in {<<>>, <<"other">>}
    /\ hooks = <<>>
    /\ interleaved_mutex = NULL
    /\ pc = [e \in Encoders |-> "idle"]
    /\ fault = NULL

Create == \E id \in DOMAIN output_types \cup {"unknown"},
             mutex_ok \in BOOLEAN, handlers_ok \in BOOLEAN,
             created \in {NULL, "data"} :
              /\ handle = NULL
              /\ Len(hooks) < MaxHooks
              /\ obs_output_create(id, mutex_ok, handlers_ok, created)

Destroy == /\ handle # NULL
           /\ obs_output_destroy

BeginLife == /\ handle # NULL
             /\ Len(signals) < MaxCtlSignals
             /\ obs_output_begin_data_capture({})

EndLife == /\ handle # NULL
           /\ EndDataCapture

NextLife ==
    \/ Create
    \/ Destroy
    \/ BeginLife
    \/ EndLife

SpecLife == InitLife /\ [][NextLife]_vars

(* ------------------------- the null output handle ---------------------- *)
(* the operations whose first statement tests the handle and returns       *)
(* false, NULL or nothing when it is null                                  *)
NullChecked == {"obs_output_destroy", "obs_output_start", "obs_output_stop",
                "obs_output_active", "obs_output_properties",
                "obs_output_update", "obs_output_get_settings",
                "obs_output_canpause", "obs_output_pause",
                "obs_output_signalhandler", "obs_output_prochandler",
                "obs_output_set_media", "obs_output_video",
                "obs_output_audio", "obs_output_remove_encoder",
                "obs_output_set_video_encoder",
                "obs_output_set_audio_encoder",
                "obs_output_get_video_encoder",
                "obs_output_get_audio_encoder",
                "obs_output_set_video_conversion",
                "obs_output_set_audio_conversion",
                "obs_output_can_begin_data_capture",
                "obs_output_begin_data_capture",
                "obs_output_end_data_capture"}

(* marks a call that was given a null obs_output_t *)
NULL_OUTPUT == "null obs_output_t"

null_checked_call(op) ==
    /\ lastCall' = Call(op, FALSE, NULL_OUTPUT)
    /\ UNCHANGED <<lifeVars, threadVars, fault,
                   info_flags, active, video, audio, bindVars, syncVars,
                   hookVars, packetVars, signals, session>>

(* what the load of output->signals through a null pointer can do: the     *)
(* access traps, or it reads whatever is mapped at that address            *)
NullDerefOutcomes == {"SIGSEGV", "wild read of output->signals"}

(* obs_output_signal_start_fail has no test of the handle: signal_start    *)
(* dereferences it                                                         *)
obs_output_signal_start_fail_null(code) ==
    /\ fault' \in NullDerefOutcomes
    /\ lastCall' = Call("obs_output_signal_start_fail", FALSE, NULL_OUTPUT)
    /\ UNCHANGED <<lifeVars, threadVars,
                   info_flags, active, video, audio, bindVars, syncVars,
                   hookVars, packetVars, signals, session>>

NullCall == \E op \in NullChecked : null_checked_call(op)

NullSignalStartFailure == \E code \in StartCodes :
                              obs_output_signal_start_fail_null(code)

(* calls with a null handle between calls that bind encoders; nothing runs *)
(* after a fault                                                           *)
NextNull ==
    \/ fault = NULL /\ SetVideoEncoder
    \/ fault = NULL /\ SetAudioEncoder
    \/ fault = NULL /\ NullCall
    \/ fault = NULL /\ NullSignalStartFailure

SpecNull == Init /\ [][NextNull]_vars

(* the binding plane: the setters and the unbinding the encoder calls *)
RemoveEncoder == \E e \in Encoders \cup {NULL} :
                     obs_output_remove_encoder(e)

NextBinding ==
    \/ SetVideoEncoder
    \/ SetAudioEncoder
    \/ RemoveEncoder

SpecBinding == Init /\ [][NextBinding]_vars

(* ------------------------------- claims -------------------------------- *)

(* C1: in a video+audio capture session the entries released to the sink   *)
(* have non-decreasing adjusted microsecond timestamps (output_ts_us).     *)
C1_Ordering ==
    \A i, j \in (session.base + 1) .. Len(released) :
        i <= j => released[i].output_ts_us <= released[j].output_ts_us

(* C2: an Interleave call that discards its audio packet (no video yet, or *)
(* a timestamp before first_video_ts) leaves the pending buffer exactly as *)
(* it was and forwards nothing.                                            *)
C2_PrerollDrop ==
    [][(/\ lastCall'.op = "interleave_packets"
        /\ lastCall'.ptype = OBS_ENCODER_AUDIO
        /\ ~lastCall'.ret)
       => /\ interleaved_packets' = interleaved_packets
          /\ released' = released
          /\ sink' = sink]_vars

(* C3: the first video packet released in a session has adjusted dts 0,    *)
(* and one has been released once the session has seen both streams.       *)
C3_OffsetAnchoring ==
    LET rel == SubSeq(released, session.base + 1, Len(released))
        vids == SelectSeq(rel, LAMBDA p : p.packet.type = OBS_ENCODER_VIDEO)
    IN  /\ vids # <<>> => vids[1].packet.dts = 0
        /\ (session.video /\ session.audio) => vids # <<>>

(* C4: once received_video and received_audio are both true, an Interleave *)
(* call releases at most one entry and shrinks the buffer by at most one;  *)
(* a call that accepts its packet releases exactly one entry, the front of *)
(* the sorted buffer, and leaves the buffer's length unchanged.            *)
C4_OneInOneOut ==
    [][(/\ lastCall'.op = "interleave_packets"
        /\ received_video /\ received_audio)
       => /\ Len(released') <= Len(released) + 1
          /\ Len(interleaved_packets') >= Len(interleaved_packets) - 1
          /\ lastCall'.ret =>
               /\ Len(released') = Len(released) + 1
               /\ Len(interleaved_packets') = Len(interleaved_packets)
               /\ \A k \in 1 .. Len(interleaved_packets') :
                     released'[Len(released')].output_ts_us
                        <= interleaved_packets'[k].output_ts_us]_vars

(* C5: in each capture session nothing is released to the sink until the   *)
(* session has received a video packet and an accepted audio packet.       *)
C5_NoReleaseBeforeBoth ==
    Len(released) > session.base => (session.video /\ session.audio)

(* C6: right after a BeginDataCapture that returned true in encoded mode,   *)
(* received_video and received_audio are both false.                        *)
C6_BeginResetsSync ==
    (/\ lastCall.op = "obs_output_begin_data_capture"
     /\ lastCall.ret
     /\ OBS_OUTPUT_ENCODED \in info_flags)
    => (~received_video /\ ~received_audio)

(* C7: for every type, request, binding and media source,                  *)
(* CanBeginDataCapture is false exactly when the output is active or a     *)
(* requested, capable medium lacks its producer.                           *)
C7_ReadinessGating ==
    \A flags \in SUBSET OutputFlags :
        LET requested == IF flags = {} THEN info_flags
                         ELSE flags \cap info_flags
            encoded == OBS_OUTPUT_ENCODED \in info_flags
            lacks_video == /\ OBS_OUTPUT_VIDEO \in requested
                           /\ IF encoded THEN video_encoder = NULL
                              ELSE video = NULL
            lacks_audio == /\ OBS_OUTPUT_AUDIO \in requested
                           /\ IF encoded THEN audio_encoder = NULL
                              ELSE audio = NULL
        IN  obs_output_can_begin_data_capture_ret(flags)
               = ~(active \/ lacks_video \/ lacks_audio)

C7_Witness ==
    /\ lastCall.op = "obs_output_can_begin_data_capture"
    /\ ~lastCall.ret
    /\ ~active
    /\ info_flags = OutputFlags
    /\ video_encoder # NULL
    /\ audio_encoder = NULL

(* C8 as stated: all the start notifications that carry the success code,  *)
(* together with the stop notifications, alternate beginning with start.   *)
C8_AllSuccessStartsAlternate ==
    LET f == SelectSeq(signals, LAMBDA n :
                 n.name = "stop" \/ n.code = OBS_OUTPUT_SUCCESS)
    IN  \A i \in 1 .. Len(f) :
            f[i].name = IF i % 2 = 1 THEN "start" ELSE "stop"

(* C8, amended: active rises only in a BeginDataCapture that returns true  *)
(* and falls only in EndDataCapture; each rise emits one start with the    *)
(* success code, each fall one stop, EndDataCapture on an inactive output  *)
(* emits nothing, and SignalStartFailure emits one start with the code it  *)
(* is given without changing active; so the success starts emitted by      *)
(* BeginDataCapture and the stops alternate beginning with start.          *)
C8_StateMachine ==
    /\ [](LET f == SelectSeq(signals, LAMBDA n :
                      n.by # "obs_output_signal_start_fail")
          IN  /\ \A i \in 1 .. Len(f) :
                    /\ f[i].name = IF i % 2 = 1 THEN "start" ELSE "stop"
                    /\ f[i].name = "start" => f[i].code = OBS_OUTPUT_SUCCESS
              /\ active = (Len(f) % 2 = 1))
    /\ [][LET begin_ok == /\ lastCall'.op = "obs_output_begin_data_capture"
                          /\ lastCall'.ret
              end == lastCall'.op = "obs_output_end_data_capture"
              fail == lastCall'.op = "obs_output_signal_start_fail"
          IN  /\ (~active /\ active') => begin_ok
              /\ (active /\ ~active') => end
              /\ begin_ok =>
                   /\ ~active /\ active'
                   /\ signals' = Append(signals,
                         [name |-> "start", code |-> OBS_OUTPUT_SUCCESS,
                          by |-> "obs_output_begin_data_capture"])
              /\ end =>
                   IF active
                   THEN /\ ~active'
                        /\ signals' = Append(signals,
                              [name |-> "stop", code |-> NULL,
                               by |-> "obs_output_end_data_capture"])
                   ELSE ~active' /\ signals' = signals
              /\ fail =>
                   /\ active' = active
                   /\ Len(signals') = Len(signals) + 1
                   /\ SubSeq(signals', 1, Len(signals)) = signals
                   /\ signals'[Len(signals')].name = "start"
              /\ ~(begin_ok \/ end \/ fail) =>
                   (active' = active /\ signals' = signals)]_vars

C8_Witness ==
    /\ lastCall.op = "obs_output_end_data_capture"
    /\ lastCall.ret
    /\ ~active
    /\ Len(signals) = 2
    /\ signals[1].name = "start" /\ signals[1].code = OBS_OUTPUT_SUCCESS
    /\ signals[2].name = "stop"

(* C9: a BeginDataCapture whose guard fails returns false and changes      *)
(* nothing: not active, the received flags, the offsets, the pending       *)
(* buffer, the bindings, the encoders' callbacks, the raw connections or   *)
(* the notifications.                                                      *)
C9_FailedBeginNoEffect ==
    [][(/\ lastCall'.op = "obs_output_begin_data_capture"
        /\ ~lastCall'.ret)
       => UNCHANGED <<lifeVars, threadVars, fault,
                      info_flags, active, video, audio, bindVars, syncVars,
                      hookVars, packetVars, signals, session>>]_vars

C9_Witness ==
    /\ lastCall.op = "obs_output_begin_data_capture"
    /\ ~lastCall.ret
    /\ active
    /\ received_video
    /\ interleaved_packets # <<>>

(* C10: after an EndDataCapture that ended a session, the encoders and the *)
(* raw pipelines bound to the output hold no callback it registered.       *)
C10_EndUnhooksAll ==
    (lastCall.op = "obs_output_end_data_capture" /\ lastCall.ret)
    => /\ \A e \in {video_encoder, audio_encoder} \ {NULL} :
             enc_callbacks[e] = {}
       /\ \A p \in {video, audio} \ {NULL} : pipe_callbacks[p] = {}

(* C11: the pending buffer is non-empty only while the output is active in *)
(* encoded mode with the interleave callback hooked on both encoders; in   *)
(* particular it is empty whenever the output is inactive.                 *)
C11_BufferOnlyWhileActive ==
    interleaved_packets # <<>>
    => /\ active
       /\ OBS_OUTPUT_ENCODED \in info_flags
       /\ video_encoder # NULL /\ audio_encoder # NULL
       /\ InterleaveCb \in enc_callbacks[video_encoder]
       /\ InterleaveCb \in enc_callbacks[audio_encoder]

(* C18: after every Interleave call the pending buffer is sorted ascending *)
(* by output_ts_us, and a call that accepts its packet has inserted it:    *)
(* together the buffer and the released entries have grown by one.         *)
C18_SortedStableInsert ==
    [][lastCall'.op = "interleave_packets"
       => /\ \A i, j \in 1 .. Len(interleaved_packets') :
                i <= j => interleaved_packets'[i].output_ts_us
                             <= interleaved_packets'[j].output_ts_us
          /\ lastCall'.ret =>
                Len(interleaved_packets') + Len(released')
                   = Len(interleaved_packets) + Len(released) + 1]_vars

(* C20: every packet Interleave accepted is in the pending buffer or was   *)
(* released exactly once, and every entry in the buffer or released is the *)
(* rebased copy of an accepted packet: each accepted call adds one entry   *)
(* carrying the packet's type and timebase, each discarding call adds      *)
(* none, and no entry is ever lost.                                        *)
C20_PacketConservation ==
    [][lastCall'.op = "interleave_packets"
       => LET before == released \o interleaved_packets
              after == released' \o interleaved_packets'
          IN  /\ Len(after) = Len(before) + (IF lastCall'.ret THEN 1 ELSE 0)
              /\ \A k \in 1 .. Len(after) :
                    /\ after[k].packet.type \in EncoderTypes
                    /\ after[k].packet.timebase_den
                          = timebase_den(after[k].packet.type)
                    /\ after[k].output_ts_us
                          = convert_packet_dts(after[k].packet)]_vars

(* C12: binding exclusivity.  When the output is in no video encoder's     *)
(* output set but that of its bound video encoder, a SetVideoEncoder call  *)
(* leaves it in the set of the encoder now bound and of no other video     *)
(* encoder (none at all after rebinding to null); same for the audio slot. *)
C12_BindingExclusivity ==
    [][/\ (/\ lastCall'.op = "obs_output_set_video_encoder"
           /\ \A e \in Encoders :
                 (encoder_type(e) = OBS_ENCODER_VIDEO
                  /\ "output" \in enc_outputs[e]) => e = video_encoder)
          => \A e \in Encoders :
                encoder_type(e) = OBS_ENCODER_VIDEO
                => ("output" \in enc_outputs'[e] <=> e = video_encoder')
       /\ (/\ lastCall'.op = "obs_output_set_audio_encoder"
           /\ \A e \in Encoders :
                 (encoder_type(e) = OBS_ENCODER_AUDIO
                  /\ "output" \in enc_outputs[e]) => e = audio_encoder)
          => \A e \in Encoders :
                encoder_type(e) = OBS_ENCODER_AUDIO
                => ("output" \in enc_outputs'[e] <=> e = audio_encoder')
      ]_vars

(* C13: binding symmetry.  Whenever the video or the audio slot of the     *)
(* output references an encoder, that encoder's output set contains the    *)
(* output.                                                                 *)
C13_BindingSymmetry ==
    /\ video_encoder # NULL => "output" \in enc_outputs[video_encoder]
    /\ audio_encoder # NULL => "output" \in enc_outputs[audio_encoder]

(* the video slot was rebound from one encoder to another, then the audio  *)
(* encoder was unbound by RemoveEncoder                                    *)
C13_Witness ==
    /\ video_encoder = "venc2"
    /\ "output" \in enc_outputs["venc"]
    /\ audio_encoder = NULL
    /\ "output" \in enc_outputs["aenc"]
    /\ lastCall.op = "obs_output_remove_encoder"

(* C14: a setter given a non-null encoder of the other type changes        *)
(* neither encoder slot nor any encoder's output set.                      *)
C14_TypeMismatchNoOp ==
    [][/\ (lastCall'.op = "obs_output_set_video_encoder"
           /\ lastCall'.ptype = OBS_ENCODER_AUDIO) => UNCHANGED bindVars
       /\ (lastCall'.op = "obs_output_set_audio_encoder"
           /\ lastCall'.ptype = OBS_ENCODER_VIDEO) => UNCHANGED bindVars
      ]_vars

(* an audio encoder was offered to the video slot of an output that has    *)
(* a video encoder bound                                                   *)
C14_Witness ==
    /\ lastCall.op = "obs_output_set_video_encoder"
    /\ lastCall.ptype = OBS_ENCODER_AUDIO
    /\ video_encoder = "venc"
    /\ audio_encoder = NULL

(* a capture session in which no encoder delivers to the interleaver *)
SingleMediumSession ==
    /\ active
    /\ \A e \in Encoders : InterleaveCb \notin enc_callbacks[e]

(* C19: single-medium bypass.  A BeginDataCapture that succeeds on an      *)
(* encoded output either starts exactly one bound encoder with the native  *)
(* callback and the sink's state, or starts both with the interleave       *)
(* callback and the instance; in a single-medium session packet delivery   *)
(* never invokes Interleave, never writes the received flags or offsets,   *)
(* and the pending buffer is empty.                                        *)
C19_SingleMediumBypass ==
    [][/\ (lastCall'.op = "obs_output_begin_data_capture" /\ lastCall'.ret)
          => \/ enc_callbacks' = obs_encoder_start(
                    obs_encoder_start(enc_callbacks, video_encoder,
                                      InterleaveCb),
                    audio_encoder, InterleaveCb)
             \/ \E e \in {video_encoder, audio_encoder} \ {NULL} :
                   /\ enc_callbacks' = obs_encoder_start(enc_callbacks, e,
                                                         NativeCb)
                   /\ SingleMediumSession'
       /\ SingleMediumSession'
          => /\ lastCall'.op # "interleave_packets"
             /\ lastCall'.op = "encoded_packet" => UNCHANGED syncVars
             /\ interleaved_packets' = <<>>
      ]_vars

(* C15: an operation called with a null output handle returns false, null  *)
(* or nothing, reads no field of an instance, invokes no type hook, emits  *)
(* no notification and changes no state.                                   *)
C15_NullHandleNoOp ==
    [][lastCall'.ptype = NULL_OUTPUT
       => /\ ~lastCall'.ret
          /\ fault' = NULL
          /\ hooks' = hooks
          /\ signals' = signals
          /\ UNCHANGED <<handle, valid, data, outputs, threadVars,
                         info_flags, active, video, audio, bindVars,
                         syncVars, hookVars, packetVars, session>>]_vars

(* C17: a Create that fails returns no handle, leaves the outputs registry *)
(* as it was, never makes the instance valid and invokes neither the stop  *)
(* nor the destroy hook; a Create that succeeds leaves the instance valid  *)
(* and in the registry exactly once; after Destroy of a valid instance the *)
(* registry no longer holds it.                                            *)
C17_CreateDestroyRegistry ==
    [][/\ (lastCall'.op = "obs_output_create" /\ ~lastCall'.ret)
          => /\ handle' = NULL
             /\ outputs' = outputs
             /\ ~valid'
             /\ Len(hooks') >= Len(hooks)
             /\ \A k \in 1 .. Len(hooks') :
                   IF k <= Len(hooks) THEN hooks'[k] = hooks[k]
                   ELSE hooks'[k] \notin {"stop", "destroy"}
       /\ (lastCall'.op = "obs_output_create" /\ lastCall'.ret)
          => /\ handle' = "output"
             /\ valid'
             /\ Cardinality({k \in 1 .. Len(outputs') :
                                outputs'[k] = handle'}) = 1
       /\ (lastCall'.op = "obs_output_destroy" /\ valid)
          => \A k \in 1 .. Len(outputs') : outputs'[k] # handle
      ]_vars

(* a create whose construction hook returned nothing, after an instance    *)
(* was created, captured and destroyed while active                        *)
C17_Witness ==
    /\ lastCall.op = "obs_output_create"
    /\ ~lastCall.ret
    /\ hooks = <<"create", "stop", "destroy", "create">>
    /\ outputs = <<"other">>

(* C16: mutex serialization.  The mutex is held by an encoder thread       *)
(* exactly from its lock to its unlock in Interleave, so every exit path   *)
(* releases it, and every step that changes received_video,                 *)
(* received_audio, first_video_ts, video_offset, audio_offset or the       *)
(* pending buffer is taken while the mutex is held.                        *)
C16_MutexSerialization ==
    /\ [](\A e \in Encoders :
             interleaved_mutex = e <=> pc[e] \in {"body", "unlock"})
    /\ [][(syncVars' # syncVars
           \/ interleaved_packets' # interleaved_packets)
          => /\ interleaved_mutex # NULL
             /\ interleaved_mutex' = interleaved_mutex]_vars

====
